---- MODULE Spec2Model ----
(***************************************************************************)
(* A model of hikaku/xml_comparison_tool.py: the XML loader                *)
(* (XMLComparator.parse_xml, _get_text_content), the character differ      *)
(* (XMLComparator.compare_characters over difflib.SequenceMatcher) and the *)
(* window's handlers (XMLComparisonGUI.load_xml, compare_xmls,             *)
(* clear_comparison, display_section_comparison), plus the sample          *)
(* generator (create_test_files).                                          *)
(*                                                                         *)
(* Strings are sequences of Unicode code points.  Python indexes from 0,   *)
(* TLA+ sequences from 1: every index and range below is the Python one,   *)
(* and At does the shift.                                                 *)
(***************************************************************************)
EXTENDS Integers, Sequences, FiniteSets, TLC

VARIABLES
    fs,              \* the files on disk: path -> missing, malformed or an XML document
    xml1_path,       \* XMLComparisonGUI.xml1_path (<<>> for None, else a path)
    xml2_path,       \* XMLComparisonGUI.xml2_path
    section_frames,  \* XMLComparisonGUI.section_frames, the Python list of panels
    packed,          \* the panels alive in scrollable_frame, in pack order
    path1_label,     \* XMLComparisonGUI.path1_label: its text and foreground
    path2_label,     \* XMLComparisonGUI.path2_label
    event,           \* the last handler run: its inputs, dialog and parse calls
    text1,           \* harness of compare_characters: first argument
    text2,           \* harness of compare_characters: second argument
    diff,            \* harness of compare_characters: <<>> or <<the returned pair>>
    doc,             \* harness of parse_xml: the file's content
    sections         \* harness of parse_xml: <<>> or <<the call's outcome>>

vars == <<fs, xml1_path, xml2_path, section_frames, packed, path1_label, path2_label,
          event, text1, text2, diff, doc, sections>>

guiVars == <<fs, xml1_path, xml2_path, section_frames, packed, path1_label, path2_label,
             event>>
diffVars == <<text1, text2, diff>>
parseVars == <<doc, sections>>

---------------------------------------------------------------------------
(* Python values and sequences *)

Range(s) == {s[n] : n \in 1..Len(s)}

At(s, i) == s[i + 1]

Max2(x, y) == IF x >= y THEN x ELSE y

SetMax(S) == CHOOSE x \in S : \A y \in S : y <= x

SetMin(S) == CHOOSE x \in S : \A y \in S : x <= y

RECURSIVE SeqsUpTo(_, _)
SeqsUpTo(S, n) ==
    IF n = 0 THEN {<<>>}
    ELSE LET shorter == SeqsUpTo(S, n - 1)
         IN  shorter \cup {Append(s, x) : s \in {t \in shorter : Len(t) = n - 1}, x \in S}

---------------------------------------------------------------------------
(* difflib.SequenceMatcher(None, a, b), as compare_characters builds it:   *)
(* isjunk is None, so no element is junk, and autojunk is on, so with      *)
(* len(b) >= 200 an element found in more than 1% + 1 places of b is       *)
(* "popular" and left out of the index b2j.                                *)

AutojunkMin == 200

Popular(b) ==
    IF Len(b) >= AutojunkMin
    THEN {c \in Range(b) :
             Cardinality({j \in 0..(Len(b) - 1) : At(b, j) = c}) > (Len(b) \div 100) + 1}
    ELSE {}

\* j \in b2j[c]: b2j maps each element of b that is not popular to the places
\* where b holds it.
InB2j(b, c, j) == At(b, j) = c /\ c \notin Popular(b)

\* find_longest_match's table: row i holds j2len[j] = (row i-1).get(j-1, 0) + 1
\* for each j of b2j[a[i]] within [blo, bhi), rows starting at alo and an absent
\* key reading as 0.  So j2len[j] at row i is the length of the run of equal,
\* indexed elements that ends at (i, j) and stays inside the window.
RECURSIVE j2len(_, _, _, _, _, _)
j2len(a, b, i, j, alo, blo) ==
    IF i < alo \/ j < blo THEN 0
    ELSE IF ~InB2j(b, At(a, i), j) THEN 0
    ELSE j2len(a, b, i - 1, j - 1, alo, blo) + 1

\* "if k > bestsize": i ascends, then j, and only a longer run replaces the
\* best, so the first (i, j) of the longest run wins; no run leaves (alo, blo, 0).
LongestRun(a, b, alo, ahi, blo, bhi) ==
    LET runs == {<<c[1], c[2], j2len(a, b, c[1], c[2], alo, blo)>> :
                    c \in (alo..(ahi - 1)) \X (blo..(bhi - 1))}
        bestsize == SetMax({r[3] : r \in runs} \cup {0})
    IN  IF bestsize = 0 THEN <<alo, blo, 0>>
        ELSE LET longest == {r \in runs : r[3] = bestsize}
                 i == SetMin({r[1] : r \in longest})
                 j == SetMin({r[2] : r \in {q \in longest : q[1] = i}})
             IN  <<i - bestsize + 1, j - bestsize + 1, bestsize>>

\* "while besti > alo and bestj > blo and a[besti-1] == b[bestj-1]": the match
\* grows backwards over equal elements the index left out.
RECURSIVE ExtendBack(_, _, _, _, _)
ExtendBack(a, b, alo, blo, best) ==
    IF best[1] > alo /\ best[2] > blo /\ At(a, best[1] - 1) = At(b, best[2] - 1)
    THEN ExtendBack(a, b, alo, blo, <<best[1] - 1, best[2] - 1, best[3] + 1>>)
    ELSE best

RECURSIVE ExtendForward(_, _, _, _, _)
ExtendForward(a, b, ahi, bhi, best) ==
    IF best[1] + best[3] < ahi /\ best[2] + best[3] < bhi
       /\ At(a, best[1] + best[3]) = At(b, best[2] + best[3])
    THEN ExtendForward(a, b, ahi, bhi, <<best[1], best[2], best[3] + 1>>)
    ELSE best

find_longest_match(a, b, alo, ahi, blo, bhi) ==
    ExtendForward(a, b, ahi, bhi,
                  ExtendBack(a, b, alo, blo, LongestRun(a, b, alo, ahi, blo, bhi)))

\* get_matching_blocks' work queue: the longest match of the window, then the
\* windows left and right of it; sorted, that is left, match, right.
RECURSIVE MatchWindow(_, _, _, _, _, _)
MatchWindow(a, b, alo, ahi, blo, bhi) ==
    LET m == find_longest_match(a, b, alo, ahi, blo, bhi)
        i == m[1]
        j == m[2]
        k == m[3]
    IN  IF k = 0 THEN <<>>
        ELSE (IF alo < i /\ blo < j THEN MatchWindow(a, b, alo, i, blo, j) ELSE <<>>)
             \o <<m>>
             \o (IF i + k < ahi /\ j + k < bhi
                 THEN MatchWindow(a, b, i + k, ahi, j + k, bhi) ELSE <<>>)

\* Adjacent blocks are merged: cur is (i1, j1, k1).
RECURSIVE Collapse(_, _, _)
Collapse(blocks, n, cur) ==
    IF n > Len(blocks)
    THEN (IF cur[3] > 0 THEN <<cur>> ELSE <<>>)
    ELSE LET nxt == blocks[n]
         IN  IF cur[1] + cur[3] = nxt[1] /\ cur[2] + cur[3] = nxt[2]
             THEN Collapse(blocks, n + 1, <<cur[1], cur[2], cur[3] + nxt[3]>>)
             ELSE (IF cur[3] > 0 THEN <<cur>> ELSE <<>>) \o Collapse(blocks, n + 1, nxt)

get_matching_blocks(a, b) ==
    Collapse(MatchWindow(a, b, 0, Len(a), 0, Len(b)), 1, <<0, 0, 0>>)
        \o <<(<<Len(a), Len(b), 0>>)>>

\* get_opcodes: between two blocks, what a has and b lacks is a delete, the
\* converse an insert, both a replace; a block of size > 0 is an equal.
RECURSIVE OpcodeLoop(_, _, _, _)
OpcodeLoop(blocks, n, i, j) ==
    IF n > Len(blocks) THEN <<>>
    ELSE LET ai == blocks[n][1]
             bj == blocks[n][2]
             size == blocks[n][3]
             tag == IF i < ai /\ j < bj THEN "replace"
                    ELSE IF i < ai THEN "delete"
                    ELSE IF j < bj THEN "insert"
                    ELSE ""
         IN  (IF tag # "" THEN <<(<<tag, i, ai, j, bj>>)>> ELSE <<>>)
             \o (IF size > 0 THEN <<(<<"equal", ai, ai + size, bj, bj + size>>)>> ELSE <<>>)
             \o OpcodeLoop(blocks, n + 1, ai + size, bj + size)

get_opcodes(a, b) == OpcodeLoop(get_matching_blocks(a, b), 1, 0, 0)

---------------------------------------------------------------------------
(* XMLComparator.compare_characters *)

RECURSIVE DiffPositions1(_, _)

\* DiffPositions1 with the test "tag == 'delete'" alone.
DiffPositions1DeleteOnly(ops, n) ==
    IF n > Len(ops) THEN <<>>
    ELSE (IF ops[n][1] = "delete" THEN <<(<<ops[n][2], ops[n][3]>>)>> ELSE <<>>)
         \o DiffPositions1(ops, n + 1)

DiffPositions1(ops, n) ==
    IF n > Len(ops) THEN <<>>
    ELSE (IF ops[n][1] = "delete" \/ ops[n][1] = "replace"
          THEN <<(<<ops[n][2], ops[n][3]>>)>> ELSE <<>>)
         \o DiffPositions1(ops, n + 1)

RECURSIVE DiffPositions2(_, _)
DiffPositions2(ops, n) ==
    IF n > Len(ops) THEN <<>>
    ELSE (IF ops[n][1] = "insert" \/ ops[n][1] = "replace"
          THEN <<(<<ops[n][4], ops[n][5]>>)>> ELSE <<>>)
         \o DiffPositions2(ops, n + 1)

\* compare_characters without the tests on the tag: every opcode is a difference.
compare_characters_untagged(t1, t2) ==
    LET ops == get_opcodes(t1, t2)
    IN  <<[n \in 1..Len(ops) |-> <<ops[n][2], ops[n][3]>>],
          [n \in 1..Len(ops) |-> <<ops[n][4], ops[n][5]>>]>>

compare_characters(t1, t2) ==
    LET ops == get_opcodes(t1, t2)
    IN  <<DiffPositions1(ops, 1), DiffPositions2(ops, 1)>>

---------------------------------------------------------------------------
(* xml.etree.ElementTree elements and the files that hold them.  An element *)
(* is [tag, attrib, text, tail, kids]; text and tail are <<>> where Python  *)
(* has None (the loader tests them for truth only, and None and '' are both *)
(* false).                                                                  *)

Element(tag, attrib, text, tail, kids) ==
    [tag |-> tag, attrib |-> attrib, text |-> text, tail |-> tail, kids |-> kids]

MissingFile == [kind |-> "missing", root |-> <<>>]
MalformedFile == [kind |-> "malformed", root |-> <<>>]
XmlFile(root) == [kind |-> "xml", root |-> root]

\* str.isspace(): what str.strip() removes from both ends.
Whitespace ==
    {9, 10, 11, 12, 13, 28, 29, 30, 31, 32, 133, 160, 5760} \cup (8192..8202)
        \cup {8232, 8233, 8239, 8287, 12288}

RECURSIVE LStrip(_)
LStrip(s) == IF s # <<>> /\ Head(s) \in Whitespace THEN LStrip(Tail(s)) ELSE s

RECURSIVE RStrip(_)
RStrip(s) ==
    IF s # <<>> /\ s[Len(s)] \in Whitespace THEN RStrip(SubSeq(s, 1, Len(s) - 1)) ELSE s

strip(s) == RStrip(LStrip(s))

\* ' '.join(parts)
RECURSIVE Join(_)
Join(parts) ==
    IF parts = <<>> THEN <<>>
    ELSE IF Len(parts) = 1 THEN parts[1]
    ELSE parts[1] \o <<32>> \o Join(Tail(parts))

\* The loop over the children in _get_text_content: each child's text when it
\* is not empty, then the child's tail when it is not blank.
RECURSIVE ChildParts(_, _)
RECURSIVE get_text_content(_)

\* ChildParts without the test "if child_text".
ChildPartsKeepEmpty(kids, n) ==
    IF n > Len(kids) THEN <<>>
    ELSE <<get_text_content(kids[n])>>
         \o (IF strip(kids[n].tail) # <<>> THEN <<strip(kids[n].tail)>> ELSE <<>>)
         \o ChildParts(kids, n + 1)

ChildParts(kids, n) ==
    IF n > Len(kids) THEN <<>>
    ELSE LET child_text == get_text_content(kids[n])
         IN  (IF child_text # <<>> THEN <<child_text>> ELSE <<>>)
             \o (IF kids[n].tail # <<>> /\ strip(kids[n].tail) # <<>>
                 THEN <<strip(kids[n].tail)>> ELSE <<>>)
             \o ChildParts(kids, n + 1)

get_text_content(element) ==
    Join((IF element.text # <<>> /\ strip(element.text) # <<>>
          THEN <<strip(element.text)>> ELSE <<>>)
         \o ChildParts(element.kids, 1))

Section(tag, text) == [tag |-> tag, text |-> text]

\* parse_xml: ET.parse raises on a missing or malformed file and the handler
\* re-raises it as one Exception carrying the cause; otherwise one section per
\* child of the root.
parse_xml(file) ==
    IF file.kind = "xml"
    THEN [ok |-> TRUE, error |-> "",
          sections |-> [n \in 1..Len(file.root.kids) |->
                           Section(file.root.kids[n].tag,
                                   get_text_content(file.root.kids[n]))]]
    ELSE [ok |-> FALSE, error |-> file.kind, sections |-> <<>>]

---------------------------------------------------------------------------
(* create_test_files and create_sample_xml *)

sections1 ==
    << <<(<<105, 110, 116, 114, 111, 100, 117, 99, 116, 105, 111, 110>>),
         (<<12371, 12428, 12399, 26368, 21021, 12398, 12475, 12463, 12471, 12519,
            12531, 12391, 12377, 65294, 88, 77, 76, 12501, 12449, 12452, 12523,
            12398, 27604, 36611, 12486, 12473, 12488, 12434, 34892, 12356, 12414,
            12377, 65294>>)>>,
       <<(<<109, 97, 105, 110>>),
         (<<12513, 12452, 12531, 12475, 12463, 12471, 12519, 12531, 12395, 12399,
            37325, 35201, 12394, 24773, 22577, 12364, 21547, 12414, 12428, 12390,
            12356, 12414, 12377, 65294, 35079, 25968, 12398, 25991, 31456, 12364,
            12354, 12426, 12414, 12377, 65294>>)>>,
       <<(<<99, 111, 110, 99, 108, 117, 115, 105, 111, 110>>),
         (<<32080, 35542, 12392, 12375, 12390, 65292, 12371, 12398, 12484, 12540,
            12523, 12399, 20415, 21033, 12391, 12377, 65294>>)>>,
       <<(<<97, 112, 112, 101, 110, 100, 105, 120>>),
         (<<36861, 21152, 24773, 22577, 12434, 12371, 12371, 12395, 35352, 36617,
            12375, 12414, 12377, 65294>>)>> >>

\* sections2 as a copy of sections1.
sections2_copied == sections1

sections2 ==
    << <<(<<105, 110, 116, 114, 111, 100, 117, 99, 116, 105, 111, 110>>),
         (<<12371, 12428, 12399, 26368, 21021, 12398, 12475, 12463, 12471, 12519,
            12531, 12391, 12377, 65294, 88, 77, 76, 12489, 12461, 12517, 12513,
            12531, 12488, 12398, 27604, 36611, 12486, 12473, 12488, 12434, 23455,
            26045, 12375, 12414, 12377, 65294>>)>>,
       <<(<<109, 97, 105, 110>>),
         (<<12513, 12452, 12531, 12475, 12463, 12471, 12519, 12531, 12395, 12399,
            37325, 35201, 12394, 12487, 12540, 12479, 12364, 21547, 12414, 12428,
            12390, 12356, 12414, 12377, 65294, 12356, 12367, 12388, 12363, 12398,
            25991, 31456, 12364, 12354, 12426, 12414, 12377, 65294>>)>>,
       <<(<<99, 111, 110, 99, 108, 117, 115, 105, 111, 110>>),
         (<<12414, 12392, 12417, 12392, 12375, 12390, 65292, 12371, 12398, 12484,
            12540, 12523, 12399, 38750, 24120, 12395, 20415, 21033, 12391, 12377,
            65294>>)>>,
       <<(<<97, 112, 112, 101, 110, 100, 105, 120>>),
         (<<36861, 21152, 24773, 22577, 12434, 12371, 12371, 12395, 35352, 36617,
            12375, 12414, 12377, 65294>>)>> >>

\* root = ET.Element("document"); one SubElement per (tag, content) with the
\* content as its text; tree.write puts the document on disk.
create_sample_xml(secs) ==
    XmlFile(Element(<<100, 111, 99, 117, 109, 101, 110, 116>>, <<>>, <<>>, <<>>,
                    [n \in 1..Len(secs) |->
                        Element(secs[n][1], <<>>, secs[n][2], <<>>, <<>>)]))

---------------------------------------------------------------------------
(* The window: XMLComparisonGUI *)

\* A path is the sequence of its components, "/w/a.xml" being <<"w", "a.xml">>;
\* the empty sequence is the false value (None before a choice, '' on cancel).
PathA == <<"w", "a.xml">>
PathB == <<"w", "b.xml">>
Sample1Path == <<"w", "sample1.xml">>
Sample2Path == <<"w", "sample2.xml">>
Paths == {PathA, PathB, Sample1Path, Sample2Path}

\* file_path.split('/')[-1]
Basename(file_path) == file_path[Len(file_path)]

\* The label before a choice: text "未選択" (U+672A U+9078 U+629E), gray.
UnselectedLabel == [text |-> <<26410, 36984, 25246>>, foreground |-> "gray"]

\* The placeholder of line 204: tag '(なし)' (U+0028 U+306A U+3057 U+0029), no text.
NoSection == Section(<<40, 12394, 12375, 41>>, <<>>)

Event(op, xml_number, file_path, dialog, parsed, error) ==
    [op |-> op, xml_number |-> xml_number, file_path |-> file_path,
     dialog |-> dialog, parsed |-> parsed, error |-> error]

\* highlight_word_differences: each Text widget gets its content and one "diff"
\* tag range per position compare_characters returns.
highlight_word_differences(content1, content2) ==
    LET d == compare_characters(content1, content2)
    IN  [left |-> [content |-> content1, diff |-> d[1]],
         right |-> [content |-> content2, diff |-> d[2]]]

\* display_section_comparison: the LabelFrame it creates, packs and appends.
\* run and paths are history: the run that made the panel ("last", or
\* "earlier" once a later run has started) and the paths it was computed from.
display_section_comparison(index, section1, section2, p1, p2) ==
    LET texts == highlight_word_differences(section1.text, section2.text)
    IN  [index |-> index,
         title |-> <<index + 1, section1.tag, section2.tag>>,
         left |-> texts.left,
         right |-> texts.right,
         run |-> "last",
         paths |-> <<p1, p2>>]

Older(frames) == [n \in 1..Len(frames) |-> [frames[n] EXCEPT !.run = "earlier"]]

RECURSIVE Without(_, _)
Without(frames, gone) ==
    IF frames = <<>> THEN <<>>
    ELSE (IF Head(frames) \in gone THEN <<>> ELSE <<Head(frames)>>)
         \o Without(Tail(frames), gone)

\* clear_comparison without "self.section_frames.clear()".
clear_comparison_keeps_list(frames, alive) ==
    <<frames, Without(alive, Range(frames))>>

\* clear_comparison: every frame of the list is destroyed, then the list is
\* cleared.  The outcome is the pair (section_frames, packed).
clear_comparison(frames, alive) ==
    <<(<<>>), Without(alive, Range(frames))>>

\* The loop of compare_xmls with min() for max().
BuildPanelsShortest(secs1, secs2, p1, p2) ==
    [n \in 1..(Len(secs1) + Len(secs2) - Max2(Len(secs1), Len(secs2))) |->
        display_section_comparison(n - 1, secs1[n], secs2[n], p1, p2)]

\* The loop of compare_xmls, lines 200-207.
BuildPanels(secs1, secs2, p1, p2) ==
    LET max_sections == Max2(Len(secs1), Len(secs2))
    IN  [n \in 1..max_sections |->
            display_section_comparison(
                n - 1,
                IF n - 1 < Len(secs1) THEN secs1[n] ELSE NoSection,
                IF n - 1 < Len(secs2) THEN secs2[n] ELSE NoSection,
                p1, p2)]

\* What ET.parse finds at a path: no file where the path names none.
ReadFile(file_path) == IF file_path \in DOMAIN fs THEN fs[file_path] ELSE MissingFile

\* load_xml without the test "if file_path".
load_xml_unchecked(xml_number) ==
    \E file_path \in {p \in Paths : fs[p].kind # "missing"} \cup {<<>>} :
        /\ IF xml_number = 1
           THEN /\ xml1_path' = file_path
                /\ path1_label' = [text |-> IF file_path = <<>> THEN ""
                                            ELSE file_path[Len(file_path)],
                                   foreground |-> "black"]
                /\ UNCHANGED <<xml2_path, path2_label>>
           ELSE /\ xml2_path' = file_path
                /\ path2_label' = [text |-> IF file_path = <<>> THEN ""
                                            ELSE file_path[Len(file_path)],
                                   foreground |-> "black"]
                /\ UNCHANGED <<xml1_path, path1_label>>
        /\ event' = Event("load_xml", xml_number, file_path, "none", <<>>, "")
        /\ UNCHANGED <<fs, section_frames, packed, text1, text2, diff, doc, sections>>

\* load_xml: the dialog returns a file of the directory, or '' when cancelled.
load_xml(xml_number) ==
    \E file_path \in {p \in Paths : fs[p].kind # "missing"} \cup {<<>>} :
        /\ IF file_path # <<>>
           THEN IF xml_number = 1
                THEN /\ xml1_path' = file_path
                     /\ path1_label' = [text |-> Basename(file_path),
                                        foreground |-> "black"]
                     /\ UNCHANGED <<xml2_path, path2_label>>
                ELSE /\ xml2_path' = file_path
                     /\ path2_label' = [text |-> Basename(file_path),
                                        foreground |-> "black"]
                     /\ UNCHANGED <<xml1_path, path1_label>>
           ELSE UNCHANGED <<xml1_path, xml2_path, path1_label, path2_label>>
        /\ event' = Event("load_xml", xml_number, file_path, "none", <<>>, "")
        /\ UNCHANGED <<fs, section_frames, packed, text1, text2, diff, doc, sections>>

\* The try block of compare_xmls, lines 191-210: the panels are aged (history),
\* cleared, both files parsed and one panel built per pair; a failed parse ends
\* the block in the except clause, which shows the error.
TryCompare ==
    LET cleared == clear_comparison(Older(section_frames), Older(packed))
        parsed1 == parse_xml(ReadFile(xml1_path))
        parsed2 == parse_xml(ReadFile(xml2_path))
    IN  IF ~parsed1.ok
        THEN /\ section_frames' = cleared[1]
             /\ packed' = cleared[2]
             /\ event' = Event("compare_xmls", 0, <<>>, "showerror",
                               <<xml1_path>>, parsed1.error)
        ELSE IF ~parsed2.ok
        THEN /\ section_frames' = cleared[1]
             /\ packed' = cleared[2]
             /\ event' = Event("compare_xmls", 0, <<>>, "showerror",
                               <<xml1_path, xml2_path>>, parsed2.error)
        ELSE LET panels == BuildPanels(parsed1.sections, parsed2.sections,
                                       xml1_path, xml2_path)
             IN  /\ section_frames' = cleared[1] \o panels
                 /\ packed' = cleared[2] \o panels
                 /\ event' = Event("compare_xmls", 0, <<>>, "none",
                                   <<xml1_path, xml2_path>>, "")

\* compare_xmls with "and" for "or" in the test of line 187.
compare_xmls_warns_on_both ==
    /\ IF xml1_path = <<>> /\ xml2_path = <<>>
       THEN /\ event' = Event("compare_xmls", 0, <<>>, "showwarning", <<>>, "")
            /\ UNCHANGED <<section_frames, packed>>
       ELSE TryCompare
    /\ UNCHANGED <<fs, xml1_path, xml2_path, path1_label, path2_label,
                   text1, text2, diff, doc, sections>>

compare_xmls ==
    /\ IF xml1_path = <<>> \/ xml2_path = <<>>
       THEN /\ event' = Event("compare_xmls", 0, <<>>, "showwarning", <<>>, "")
            /\ UNCHANGED <<section_frames, packed>>
       ELSE TryCompare
    /\ UNCHANGED <<fs, xml1_path, xml2_path, path1_label, path2_label,
                   text1, text2, diff, doc, sections>>

\* python xml_comparison_tool.py --test, run in the directory /w: the files
\* of the directory after it.
create_test_files(files) ==
    [files EXCEPT ![Sample1Path] = create_sample_xml(sections1),
                  ![Sample2Path] = create_sample_xml(sections2)]

---------------------------------------------------------------------------
(* Bounds and the inputs drawn within them *)

MaxSections == 4
MaxLen == 3
MaxNodes == 3

Leaf(tag, text, tail) == Element(tag, <<>>, text, tail, <<>>)

Root(kids) == Element(<<114, 111, 111, 116>>, <<>>, <<10>>, <<>>, kids)

\* Top-level children of a.xml: <p/>, <p>ab</p> and <q> b</q>, the last two
\* followed by a line break.
UserSections ==
    {Leaf(<<112>>, <<>>, <<>>),
     Leaf(<<112>>, <<97, 98>>, <<10>>),
     Leaf(<<113>>, <<32, 98>>, <<10>>)}

UserFiles ==
    {MalformedFile} \cup {XmlFile(Root(kids)) : kids \in SeqsUpTo(UserSections, MaxSections)}

\* b.xml: malformed, or <root><q>ab</q><p>ab</p></root>.
OtherFiles ==
    {MalformedFile,
     XmlFile(Root(<<Leaf(<<113>>, <<97, 98>>, <<>>), Leaf(<<112>>, <<97, 98>>, <<>>)>>))}

\* The arguments of compare_characters: strings over a, b, c.
Texts == SeqsUpTo({97, 98, 99}, MaxLen)

\* The elements of the parsed files: <p>, followed by a line break, and
\* <q id="x">, followed by "b "; the text is None, blank or " a\n".
Labels ==
    {[tag |-> t[1], attrib |-> t[2], text |-> x, tail |-> t[3]] :
        t \in {<<(<<112>>), (<<>>), (<<10>>)>>,
               <<(<<113>>), (<<(<<"id", (<<120>>)>>)>>), (<<98, 32>>)>>},
        x \in {<<>>, <<32>>, <<32, 97, 10>>}}

RECURSIVE Forests(_)
\* The sequences of elements with n nodes in all.
Forests(n) ==
    IF n = 0 THEN {<<>>}
    ELSE UNION {{<<[l EXCEPT !.kids = k]>> \o f :
                    l \in {[tag |-> m.tag, attrib |-> m.attrib, text |-> m.text,
                            tail |-> m.tail, kids |-> <<>>] : m \in Labels},
                    k \in Forests(first - 1), f \in Forests(n - first)} :
                first \in 1..n}

ParseInputs ==
    {MissingFile, MalformedFile}
        \cup {XmlFile(Root(kids)) : kids \in UNION {Forests(n) : n \in 0..MaxNodes}}

---------------------------------------------------------------------------
(* Specifications *)

NoEvent == Event("init", 0, <<>>, "none", <<>>, "")

EmptyDirectory == [p \in Paths |-> MissingFile]

\* XMLComparisonGUI.__init__
GuiIdle ==
    /\ xml1_path = <<>>
    /\ xml2_path = <<>>
    /\ section_frames = <<>>
    /\ packed = <<>>
    /\ path1_label = UnselectedLabel
    /\ path2_label = UnselectedLabel
    /\ event = NoEvent

DiffIdle == text1 = <<>> /\ text2 = <<>> /\ diff = <<>>

ParseIdle == doc = MissingFile /\ sections = <<>>

\* The window opened in a directory that holds a.xml and b.xml.
Init ==
    /\ \E a \in UserFiles, b \in OtherFiles :
           fs = [EmptyDirectory EXCEPT ![PathA] = a, ![PathB] = b]
    /\ GuiIdle
    /\ DiffIdle
    /\ ParseIdle

\* The commands of the menu and of the toolbar.
Next ==
    \/ load_xml(1)
    \/ load_xml(2)
    \/ compare_xmls

Spec == Init /\ [][Next]_vars

\* The window opened in a directory where --test has written the samples
\* beside a malformed b.xml.
InitSample ==
    /\ fs = create_test_files([EmptyDirectory EXCEPT ![PathB] = MalformedFile])
    /\ GuiIdle
    /\ DiffIdle
    /\ ParseIdle

SpecSample == InitSample /\ [][Next]_vars

\* compare_characters on every pair of strings within the bound.
InitDiff ==
    /\ text1 \in Texts
    /\ text2 \in Texts
    /\ diff = <<>>
    /\ fs = EmptyDirectory
    /\ GuiIdle
    /\ ParseIdle

CallCompareCharacters ==
    /\ diff = <<>>
    /\ diff' = <<compare_characters(text1, text2)>>
    /\ UNCHANGED <<guiVars, text1, text2, parseVars>>

NextDiff == CallCompareCharacters

SpecDiff == InitDiff /\ [][NextDiff]_vars

\* parse_xml on every file within the bound.
InitParse ==
    /\ doc \in ParseInputs
    /\ sections = <<>>
    /\ fs = EmptyDirectory
    /\ GuiIdle
    /\ DiffIdle

CallParseXml ==
    /\ sections = <<>>
    /\ sections' = <<parse_xml(doc)>>
    /\ UNCHANGED <<guiVars, diffVars, doc>>

NextParse == CallParseXml

SpecParse == InitParse /\ [][NextParse]_vars

---------------------------------------------------------------------------
(* Properties *)

Compared == event.op = "compare_xmls" /\ event.dialog = "none"

Spans(frame) == Len(frame.left.diff) + Len(frame.right.diff)

\* The ranges lie within the text, sorted by start and not overlapping.
RangesInOrder(ranges, text) ==
    /\ \A n \in 1..Len(ranges) :
           0 <= ranges[n][1] /\ ranges[n][1] <= ranges[n][2] /\ ranges[n][2] <= Len(text)
    /\ \A n \in 1..(Len(ranges) - 1) : ranges[n][2] <= ranges[n + 1][1]

\* The characters of text outside every range, in order.
RECURSIVE Uncovered(_, _, _)
Uncovered(text, ranges, i) ==
    IF i >= Len(text) THEN <<>>
    ELSE (IF \E n \in 1..Len(ranges) : ranges[n][1] <= i /\ i < ranges[n][2]
          THEN <<>> ELSE <<At(text, i)>>)
         \o Uncovered(text, ranges, i + 1)

\* The text and tail fragments of an element in document order: its text, then
\* for each child the child's fragments and the child's tail.
RECURSIVE Fragments(_)
RECURSIVE KidFragments(_, _)
Fragments(element) == <<element.text>> \o KidFragments(element.kids, 1)

KidFragments(kids, n) ==
    IF n > Len(kids) THEN <<>>
    ELSE Fragments(kids[n]) \o <<kids[n].tail>> \o KidFragments(kids, n + 1)

NotEmpty(s) == s # <<>>

Flattened(element) ==
    LET frags == Fragments(element)
    IN  Join(SelectSeq([n \in 1..Len(frags) |-> strip(frags[n])], NotEmpty))

\* C1: when both files are selected and a parse fails, compare_xmls leaves the
\* two paths and the panels on display as they were before the call.
C1_ParseFailureKeepsState ==
    [][(event'.op = "compare_xmls" /\ event'.dialog = "showerror")
        => /\ xml1_path' = xml1_path
           /\ xml2_path' = xml2_path
           /\ section_frames' = section_frames
           /\ packed' = packed]_vars

\* C2: compare_xmls with a path unselected shows the warning and does nothing
\* else: it parses no file and leaves paths, labels, panels and files alone.
C2_WarningIsNoOp ==
    [][(event'.op = "compare_xmls" /\ (xml1_path = <<>> \/ xml2_path = <<>>))
        => /\ event'.dialog = "showwarning"
           /\ event'.parsed = <<>>
           /\ UNCHANGED <<fs, xml1_path, xml2_path, section_frames, packed,
                          path1_label, path2_label>>]_vars

C2_Witness ==
    /\ event.op = "compare_xmls"
    /\ event.dialog = "showwarning"
    /\ xml1_path # <<>>
    /\ xml2_path = <<>>

\* C3: every panel on display was computed from the pair of files that is
\* selected now; a re-selection or a new comparison clears the older panels.
C3_NoStalePanels ==
    \A n \in 1..Len(packed) : packed[n].paths = <<xml1_path, xml2_path>>

\* C4: the ranges compare_characters returns are, in each list, within the
\* text, sorted and disjoint, and the characters outside them are the same
\* sequence in both texts.
C4_RangesCoverDifferences ==
    diff # <<>>
        => /\ RangesInOrder(diff[1][1], text1)
           /\ RangesInOrder(diff[1][2], text2)
           /\ Uncovered(text1, diff[1][1], 0) = Uncovered(text2, diff[1][2], 0)

C4_Witness ==
    /\ diff # <<>>
    /\ Len(diff[1][1]) >= 2
    /\ Len(diff[1][2]) >= 1
    /\ Uncovered(text1, diff[1][1], 0) # <<>>

\* C5: for equal strings, the empty one included, compare_characters returns
\* two empty lists.
C5_EqualTextsNoRanges ==
    (diff # <<>> /\ text1 = text2) => diff[1] = <<(<<>>), (<<>>)>>

C5_Witness == diff # <<>> /\ text1 = text2 /\ Len(text1) >= 2

\* What C6 says of the panel at a place where the other document has no
\* section: the placeholder tag, no text and no range on the missing side, and
\* on the present side one range over the whole text (none, with unlessEmpty,
\* when that text is empty).
PaddedPanel(present, missing, shownTag, unlessEmpty) ==
    /\ shownTag = NoSection.tag
    /\ missing.content = <<>>
    /\ missing.diff = <<>>
    /\ present.diff = IF unlessEmpty /\ present.content = <<>> THEN <<>>
                      ELSE <<(<<0, Len(present.content)>>)>>

PairedByPosition(unlessEmpty) ==
    LET secs1 == parse_xml(fs[xml1_path]).sections
        secs2 == parse_xml(fs[xml2_path]).sections
    IN  /\ Len(section_frames) = Max2(Len(secs1), Len(secs2))
        /\ \A n \in 1..Len(section_frames) :
               LET frame == section_frames[n]
               IN  /\ n <= Len(secs1)
                       => /\ frame.title[2] = secs1[n].tag
                          /\ frame.left.content = secs1[n].text
                   /\ n <= Len(secs2)
                       => /\ frame.title[3] = secs2[n].tag
                          /\ frame.right.content = secs2[n].text
                   /\ n > Len(secs2)
                       => PaddedPanel(frame.left, frame.right, frame.title[3], unlessEmpty)
                   /\ n > Len(secs1)
                       => PaddedPanel(frame.right, frame.left, frame.title[2], unlessEmpty)

\* C6 as stated: sections are paired by position; max(n1, n2) pairs are
\* shown; past the shorter document the missing side has the placeholder tag,
\* no text and no range, and the whole text of the present side is one range.
C6_PaddingAsStated == Compared => PairedByPosition(FALSE)

\* C6, amended: as stated, but the whole text of the present side is one range
\* only when that text is not empty (one delete opcode when document 2 is the
\* shorter, one insert opcode when document 1 is); an empty text has no range.
C6_Padding ==
    Compared
        => /\ PairedByPosition(TRUE)
           /\ \A n \in 1..Len(section_frames) :
                  LET frame == section_frames[n]
                      ops == get_opcodes(frame.left.content, frame.right.content)
                  IN  /\ (frame.right.content = <<>> /\ frame.left.content # <<>>)
                          => ops = <<(<<"delete", 0, Len(frame.left.content), 0, 0>>)>>
                      /\ (frame.left.content = <<>> /\ frame.right.content # <<>>)
                          => ops = <<(<<"insert", 0, 0, 0, Len(frame.right.content)>>)>>

\* Four sections against two: panels 3 and 4 are padded on the second document.
C6_Witness ==
    /\ Compared
    /\ Len(section_frames) = 4
    /\ Len(parse_xml(fs[xml2_path]).sections) = 2
    /\ section_frames[3].left.diff # <<>>
    /\ section_frames[4].title[3] = NoSection.tag

\* C7: parse_xml returns one section per child of the root, in order, with the
\* child's tag and with the child's text and tail fragments in document order,
\* each trimmed, the empty ones dropped, joined by one space; no attribute
\* value and no tail of the child itself is in it.
C7_SectionsAreFlattenedChildren ==
    (sections # <<>> /\ doc.kind = "xml")
        => LET kids == doc.root.kids
               got == sections[1]
           IN  /\ got.ok
               /\ Len(got.sections) = Len(kids)
               /\ \A n \in 1..Len(kids) :
                      /\ got.sections[n].tag = kids[n].tag
                      /\ got.sections[n].text = Flattened(kids[n])
                      /\ 120 \notin Range(got.sections[n].text)

C7_Witness ==
    /\ sections # <<>>
    /\ doc.kind = "xml"
    /\ \E n \in 1..Len(doc.root.kids) :
           LET kid == doc.root.kids[n]
           IN  /\ strip(kid.text) # <<>>
               /\ strip(kid.tail) # <<>>
               /\ kid.attrib # <<>>
               /\ Len(kid.kids) = 2
               /\ strip(kid.kids[1].text) = <<>>
               /\ strip(kid.kids[1].tail) # <<>>
               /\ strip(kid.kids[2].text) # <<>>
               /\ strip(kid.kids[2].tail) = <<>>

\* C8: comparing sample1.xml with sample2.xml shows 4 panels; a panel has no
\* highlighted span exactly when its two texts are equal, which is so for the
\* appendix pair alone: each of the other three has a span.
C8_SampleComparison ==
    (Compared /\ xml1_path = Sample1Path /\ xml2_path = Sample2Path)
        => /\ Len(section_frames) = 4
           /\ packed = section_frames
           /\ \A n \in 1..Len(section_frames) :
                  LET frame == section_frames[n]
                  IN  /\ frame.title = <<n, sections1[n][1], sections2[n][1]>>
                      /\ frame.left.content = sections1[n][2]
                      /\ frame.right.content = sections2[n][2]
                      /\ Spans(frame) = 0 <=> frame.left.content = frame.right.content
                      /\ Spans(frame) = 0 <=> n = 4

C8_Witness ==
    /\ Compared
    /\ xml1_path = Sample1Path
    /\ xml2_path = Sample2Path
    /\ Len(section_frames) = 4
    /\ Spans(section_frames[1]) >= 1

\* C9: after a comparison that succeeds, section_frames holds exactly
\* max(n1, n2) panels, all made by that run, in section order, and no other
\* panel is alive.
C9_RebuiltFromScratch ==
    Compared
        => /\ Len(section_frames)
                  = Max2(Len(parse_xml(fs[xml1_path]).sections),
                         Len(parse_xml(fs[xml2_path]).sections))
           /\ \A n \in 1..Len(section_frames) :
                  /\ section_frames[n].index = n - 1
                  /\ section_frames[n].run = "last"
                  /\ section_frames[n].paths = <<xml1_path, xml2_path>>
           /\ packed = section_frames

C9_Witness == Compared /\ Len(section_frames) >= 2 /\ xml1_path # xml2_path

\* C10: load_xml(1) leaves xml2_path alone and load_xml(2) xml1_path; a
\* cancelled dialog changes no path and no panel; a selected path is never
\* unselected again, so with both selected compare_xmls shows no warning.
C10_SelectionsIndependentAndKept ==
    [][/\ (event'.op = "load_xml" /\ event'.xml_number = 1)
              => UNCHANGED <<xml2_path, path2_label>>
       /\ (event'.op = "load_xml" /\ event'.xml_number = 2)
              => UNCHANGED <<xml1_path, path1_label>>
       /\ (event'.op = "load_xml" /\ event'.file_path = <<>>)
              => UNCHANGED <<xml1_path, xml2_path, section_frames, packed>>
       /\ xml1_path # <<>> => xml1_path' # <<>>
       /\ xml2_path # <<>> => xml2_path' # <<>>
       /\ (xml1_path # <<>> /\ xml2_path # <<>> /\ event'.op = "compare_xmls")
              => event'.dialog # "showwarning"]_vars

C10_Witness ==
    /\ event.op = "load_xml"
    /\ event.file_path = <<>>
    /\ section_frames # <<>>
    /\ xml1_path # <<>>
    /\ xml2_path # <<>>

====
